---- MODULE Spec2Model ----
(***************************************************************************)
(* Model of lib/pyiso.py: ISOBuilder.extract_iso, _extract_iso_basic,      *)
(* create_iso, _create_iso_native and _create_iso_xorriso.                 *)
(*                                                                         *)
(* The host (which programs are on PATH, whether /bin/mount exists) is     *)
(* fixed at Init.  One call of extract_iso or create_iso is executed one   *)
(* statement group at a time; the outcomes of external commands and of     *)
(* filesystem operations are chosen nondeterministically.  log records     *)
(* every probe, command and return in program order.                       *)
(***************************************************************************)
EXTENDS Integers, Sequences, FiniteSets, TLC

VARIABLES
    pc,                \* position in the running call
    op,                \* "none", "extract" or "create"
    PATH,              \* programs shutil.which finds
    binMount,          \* os.path.exists('/bin/mount')
    srcExists,         \* iso_path.exists() / source_dir.exists()
    efiExists,         \* (source_dir/boot/grub/efi.img).exists()
    args,              \* source_dir, output_iso, volume_label of create_iso
    image,             \* content of the ISO file as read by the sniff
    readOk,            \* open/seek/read of the image did not raise
    mounted,           \* the image is mounted on mount_point
    mountPointExists,  \* the mkdtemp directory exists
    pending,           \* return value waiting for the finally block
    writers,           \* strategies that wrote into extract_dir
    sniffMsg,          \* outcome printed by _extract_iso_basic
    tool,              \* authoring tool selected by create_iso
    idx,               \* loop index of "for tool in [...]"
    cmd,               \* command line handed to subprocess.run
    result,            \* "none", "True", "False" or "raise"
    log                \* events in program order

vars == <<pc, op, PATH, binMount, srcExists, efiExists, args, image, readOk,
          mounted, mountPointExists, pending, writers, sniffMsg, tool, idx,
          cmd, result, log>>

----------------------------------------------------------------------------
(* Bounds of the model                                                     *)

MaxTailExtra == 1

(* Program constants                                                       *)

SectorSize == 2048
DescriptorSector == 16
SliceEnd == 6
Magic == <<1, 67, 68, 48, 48, 49>>      \* b'\x01CD001'

Min(a, b) == IF a < b THEN a ELSE b

----------------------------------------------------------------------------
(* Files: pad zero bytes, then tail, then post zero bytes                  *)

FileLen(img) == img.pad + Len(img.tail) + img.post

ByteAt(img, i) ==
    IF i >= img.pad /\ i < img.pad + Len(img.tail)
    THEN img.tail[i - img.pad + 1]
    ELSE 0

\* iso.seek(pos); iso.read(n): the bytes from pos up to end of file, at most n
FileRead(img, pos, n) ==
    LET avail == FileLen(img) - pos
        k     == IF avail < 0 THEN 0 ELSE Min(n, avail)
    IN  [i \in 1..k |-> ByteAt(img, pos + i - 1)]

\* s[a:b] of Python for 0 <= a <= b
PySlice(s, a, b) == SubSeq(s, a + 1, Min(b, Len(s)))

SeekOffset_wrongSector == (DescriptorSector - 1) * SectorSize

SeekOffset == DescriptorSector * SectorSize

_extract_iso_basic_returnsTrue(ok, img) ==
    IF ~ok
    THEN [ret |-> "False", msg |-> "read_error", wrote |-> FALSE]
    ELSE LET descriptor == FileRead(img, SeekOffset, SectorSize)
         IN  IF PySlice(descriptor, 0, SliceEnd) # Magic
             THEN [ret |-> "False", msg |-> "not_valid", wrote |-> FALSE]
             ELSE [ret |-> "True", msg |-> "extracted", wrote |-> TRUE]

_extract_iso_basic(ok, img) ==
    IF ~ok
    THEN [ret |-> "False", msg |-> "read_error", wrote |-> FALSE]
    ELSE LET descriptor == FileRead(img, SeekOffset, SectorSize)
         IN  IF PySlice(descriptor, 0, SliceEnd) # Magic
             THEN [ret |-> "False", msg |-> "not_valid", wrote |-> FALSE]
             ELSE [ret |-> "False", msg |-> "not_implemented", wrote |-> FALSE]

----------------------------------------------------------------------------
(* Inputs                                                                  *)

Bytes == {0, 1, 48, 49, 67, 68}

NearMagic == {Magic} \cup {[Magic EXCEPT ![i] = b] : i \in 1..Len(Magic), b \in Bytes}

Extras == UNION {[1..n -> {0, 1}] : n \in 0..MaxTailExtra}

MagicPrefixes == {SubSeq(Magic, 1, k) : k \in 0..Len(Magic)}

Pads == {0} \cup {s * SectorSize + d : s \in {DescriptorSector - 1, DescriptorSector}, d \in {-1, 0, 1}}

Posts == {0, SectorSize - Len(Magic)}

\* the magic (whole or cut short) at and around sector 16, and every
\* one-byte corruption of it at sector 16
Images == [pad : Pads, tail : MagicPrefixes, post : Posts]
          \cup [pad : {DescriptorSector * SectorSize}, tail : {m \o e : m \in NearMagic, e \in Extras}, post : {0}]

NoImage == [pad |-> 0, tail |-> <<>>, post |-> 0]

Programs == {"7z", "genisoimage", "mkisofs", "xorriso"}

Sources == {"custom", "-eltorito-alt-boot"}
Outputs == {"out.iso", "-e"}
Labels == {"Ubuntu Server", "-no-emul-boot"}

NoArgs == [source_dir |-> "", output_iso |-> "", volume_label |-> ""]

YesNo(b) == IF b THEN "yes" ELSE "no"

Event(e, o) == [ev |-> e, out |-> o]

----------------------------------------------------------------------------
(* Command builders                                                        *)

EfiArgs == <<"-eltorito-alt-boot", "-e", "boot/grub/efi.img", "-no-emul-boot">>

_create_iso_native_cmd(t, source_dir, output_iso, volume_label, efi) ==
    <<t, "-r", "-V", volume_label, "-cache-inodes", "-J", "-l",
      "-b", "isolinux/isolinux.bin", "-c", "isolinux/boot.cat",
      "-no-emul-boot", "-boot-load-size", "4", "-boot-info-table",
      "-o", output_iso, source_dir>>
    \o (IF efi THEN EfiArgs ELSE <<>>)

_create_iso_xorriso_cmd_noEfi(source_dir, output_iso, volume_label, efi) ==
    <<"xorriso", "-as", "mkisofs", "-r", "-V", volume_label,
      "-J", "-joliet-long",
      "-b", "isolinux/isolinux.bin", "-c", "isolinux/boot.cat",
      "-no-emul-boot", "-boot-load-size", "4", "-boot-info-table">>
    \o <<"-o", output_iso, source_dir>>

_create_iso_xorriso_cmd(source_dir, output_iso, volume_label, efi) ==
    <<"xorriso", "-as", "mkisofs", "-r", "-V", volume_label,
      "-J", "-joliet-long",
      "-b", "isolinux/isolinux.bin", "-c", "isolinux/boot.cat",
      "-no-emul-boot", "-boot-load-size", "4", "-boot-info-table">>
    \o (IF efi THEN EfiArgs ELSE <<>>)
    \o <<"-o", output_iso, source_dir>>

\* result of "try: subprocess.run(cmd) ... except" in both builders
CreateResult(out) == IF out = "rc0" THEN "True" ELSE "False"

NativeTools_swapped == <<"mkisofs", "genisoimage">>

NativeTools == <<"genisoimage", "mkisofs">>

----------------------------------------------------------------------------
(* Control flow decisions of extract_iso                                   *)

SourceMissing_ignored(exists) == FALSE

\* "if not iso_path.exists()" / "if not source_dir.exists()"
SourceMissing(exists) == ~exists

After7z_fallsThrough(out) == "x_mountprobe"

\* "if result.returncode == 0: return True", else on to method 2
After7z(out) == IF out = "rc0" THEN "done" ELSE "x_mountprobe"

AfterFinally_fallsThrough(p) == "x_basic"

\* a return inside the try completes after the finally block; otherwise
\* control reaches method 3
AfterFinally(p) == IF p = "True" THEN "done" ELSE "x_basic"

----------------------------------------------------------------------------
(* Initial state: a host, nothing called yet                               *)

Init ==
    /\ pc = "idle"
    /\ op = "none"
    /\ PATH \in SUBSET Programs
    /\ binMount \in BOOLEAN
    /\ srcExists = FALSE
    /\ efiExists = FALSE
    /\ args = NoArgs
    /\ image = NoImage
    /\ readOk = FALSE
    /\ mounted = FALSE
    /\ mountPointExists = FALSE
    /\ pending = "none"
    /\ writers = {}
    /\ sniffMsg = "none"
    /\ tool = "none"
    /\ idx = 0
    /\ cmd = <<>>
    /\ result = "none"
    /\ log = <<>>

host == <<PATH, binMount>>
createState == <<efiExists, args, tool, idx, cmd>>
sniffState == <<image, readOk, sniffMsg>>
mountState == <<mounted, mountPointExists, pending>>

----------------------------------------------------------------------------
(* extract_iso                                                             *)

\* lines 23-30
extract_iso ==
    /\ pc = "idle"
    /\ \E exists \in BOOLEAN :
        /\ op' = "extract"
        /\ srcExists' = exists
        /\ log' = Append(log, Event("exists:source", YesNo(exists)))
        /\ IF SourceMissing(exists)
           THEN /\ pc' = "done"
                /\ result' = "False"
           ELSE /\ pc' = "x_which7z"
                /\ result' = result
    /\ UNCHANGED <<host, createState, sniffState, mountState, writers>>

\* line 33
Which7z ==
    /\ pc = "x_which7z"
    /\ log' = Append(log, Event("which:7z", YesNo("7z" \in PATH)))
    /\ pc' = IF "7z" \in PATH THEN "x_run7z" ELSE "x_mountprobe"
    /\ UNCHANGED <<op, host, srcExists, createState, sniffState, mountState,
                   writers, result>>

\* lines 34-46
Run7z ==
    /\ pc = "x_run7z"
    /\ \E out \in {"rc0", "rc1", "raise"} :
        /\ writers' = IF out = "raise" THEN writers ELSE writers \cup {"7z"}
        /\ pc' = After7z(out)
        /\ IF After7z(out) = "done"
           THEN /\ result' = "True"
                /\ log' = log \o <<Event("run:7z", out), Event("return", "True")>>
           ELSE /\ result' = result
                /\ log' = Append(log, Event("run:7z", out))
    /\ UNCHANGED <<op, host, srcExists, createState, sniffState, mountState>>

\* lines 49-50
MountProbe ==
    /\ pc = "x_mountprobe"
    /\ IF binMount
       THEN /\ mountPointExists' = TRUE
            /\ log' = log \o <<Event("exists:/bin/mount", "yes"), Event("mkdtemp", "ok")>>
            /\ pc' = "x_mount"
       ELSE /\ mountPointExists' = mountPointExists
            /\ log' = Append(log, Event("exists:/bin/mount", "no"))
            /\ pc' = "x_basic"
    /\ UNCHANGED <<op, host, srcExists, createState, sniffState, mounted,
                   pending, writers, result>>

\* lines 53-57, and 65-67 when subprocess.run raises
RunMount ==
    /\ pc = "x_mount"
    /\ \E out \in {"rc0", "rc1", "raise"} :
        /\ log' = Append(log, Event("run:mount", out))
        /\ mounted' = (out = "rc0")
        /\ pc' = IF out = "rc0" THEN "x_copy" ELSE "x_finally"
    /\ UNCHANGED <<op, host, srcExists, createState, sniffState,
                   mountPointExists, pending, writers, result>>

\* line 59, and 65-67 when copytree raises
CopyTree ==
    /\ pc = "x_copy"
    /\ \E out \in {"ok", "raise"} :
        /\ log' = Append(log, Event("copytree", out))
        /\ writers' = writers \cup {"copytree"}
        /\ pc' = IF out = "ok" THEN "x_umount1" ELSE "x_finally"
    /\ UNCHANGED <<op, host, srcExists, createState, sniffState, mountState,
                   result>>

\* outcomes of subprocess.run(['umount', mount_point]): the return code is
\* ignored by the caller, a failure to execute raises
UmountOutcomes == IF mounted THEN {"ok", "fail", "raise"} ELSE {"fail", "raise"}

\* outcomes of os.rmdir(mount_point): a mounted directory cannot be removed
RmdirOutcomes == IF mounted THEN {"raise"} ELSE {"ok", "raise"}

\* line 60, and 65-67 when it raises
Umount1 ==
    /\ pc = "x_umount1"
    /\ \E out \in UmountOutcomes :
        /\ log' = Append(log, Event("run:umount@60", out))
        /\ mounted' = IF out = "ok" THEN FALSE ELSE mounted
        /\ pc' = IF out = "raise" THEN "x_finally" ELSE "x_rmdir1"
    /\ UNCHANGED <<op, host, srcExists, createState, sniffState,
                   mountPointExists, pending, writers, result>>

\* lines 61-64, and 65-67 when it raises
Rmdir1 ==
    /\ pc = "x_rmdir1"
    /\ \E out \in RmdirOutcomes :
        /\ IF out = "ok"
           THEN /\ mountPointExists' = FALSE
                /\ pending' = "True"
                /\ log' = log \o <<Event("rmdir@61", out), Event("return", "True")>>
           ELSE /\ mountPointExists' = mountPointExists
                /\ pending' = pending
                /\ log' = Append(log, Event("rmdir@61", out))
        /\ pc' = "x_finally"
    /\ UNCHANGED <<op, host, srcExists, createState, sniffState, mounted,
                   writers, result>>

\* lines 68-69
Finally ==
    /\ pc = "x_finally"
    /\ log' = Append(log, Event("exists:mount_point", YesNo(mountPointExists)))
    /\ IF mountPointExists
       THEN /\ pc' = "x_umount2"
            /\ result' = result
       ELSE /\ pc' = AfterFinally(pending)
            /\ result' = IF AfterFinally(pending) = "done" THEN pending ELSE result
    /\ UNCHANGED <<op, host, srcExists, createState, sniffState, mountState,
                   writers>>

\* line 70: an exception raised here leaves extract_iso
Umount2 ==
    /\ pc = "x_umount2"
    /\ \E out \in UmountOutcomes :
        /\ log' = Append(log, Event("run:umount@70", out))
        /\ mounted' = IF out = "ok" THEN FALSE ELSE mounted
        /\ IF out = "raise"
           THEN /\ pc' = "done"
                /\ result' = "raise"
           ELSE /\ pc' = "x_rmdir2"
                /\ result' = result
    /\ UNCHANGED <<op, host, srcExists, createState, sniffState,
                   mountPointExists, pending, writers>>

\* line 71: an exception raised here leaves extract_iso
Rmdir2 ==
    /\ pc = "x_rmdir2"
    /\ \E out \in RmdirOutcomes :
        /\ log' = Append(log, Event("rmdir@71", out))
        /\ IF out = "ok"
           THEN /\ mountPointExists' = FALSE
                /\ pc' = AfterFinally(pending)
                /\ result' = IF AfterFinally(pending) = "done" THEN pending ELSE result
           ELSE /\ mountPointExists' = mountPointExists
                /\ pc' = "done"
                /\ result' = "raise"
    /\ UNCHANGED <<op, host, srcExists, createState, sniffState, mounted,
                   pending, writers>>

\* lines 74-75 and 77-98
Basic ==
    /\ pc = "x_basic"
    /\ \E ok \in BOOLEAN :
       \E img \in IF ok THEN Images ELSE {NoImage} :
       LET r == _extract_iso_basic(ok, img) IN
        /\ readOk' = ok
        /\ image' = img
        /\ sniffMsg' = r.msg
        /\ result' = r.ret
        /\ log' = log \o <<Event("sniff", r.msg), Event("return", r.ret)>>
        /\ writers' = IF r.wrote THEN writers \cup {"basic"} ELSE writers
    /\ pc' = "done"
    /\ UNCHANGED <<op, host, srcExists, createState, mountState>>

----------------------------------------------------------------------------
(* create_iso                                                              *)

\* lines 100-107
create_iso ==
    /\ pc = "idle"
    /\ \E exists \in BOOLEAN :
       \E efi \in IF exists THEN BOOLEAN ELSE {FALSE} :
       \E a \in [source_dir : Sources, output_iso : Outputs, volume_label : Labels] :
        /\ op' = "create"
        /\ srcExists' = exists
        /\ efiExists' = efi
        /\ args' = a
        /\ log' = Append(log, Event("exists:source", YesNo(exists)))
        /\ IF SourceMissing(exists)
           THEN /\ pc' = "done"
                /\ result' = "False"
                /\ idx' = idx
           ELSE /\ pc' = "c_native"
                /\ result' = result
                /\ idx' = 1
    /\ UNCHANGED <<host, sniffState, mountState, writers, tool, cmd>>

\* lines 110-111: one iteration of the loop over genisoimage, mkisofs
WhichNative ==
    /\ pc = "c_native"
    /\ log' = Append(log, Event("which:" \o NativeTools[idx], YesNo(NativeTools[idx] \in PATH)))
    /\ IF NativeTools[idx] \in PATH
       THEN /\ tool' = NativeTools[idx]
            /\ pc' = "c_run_native"
            /\ idx' = idx
       ELSE /\ tool' = tool
            /\ idx' = idx + 1
            /\ pc' = IF idx < Len(NativeTools) THEN "c_native" ELSE "c_xorriso"
    /\ UNCHANGED <<op, host, srcExists, efiExists, args, cmd, sniffState,
                   mountState, writers, result>>

\* lines 112 and 123-160
RunNative ==
    /\ pc = "c_run_native"
    /\ cmd' = _create_iso_native_cmd(tool, args.source_dir, args.output_iso,
                                     args.volume_label, efiExists)
    /\ \E out \in {"rc0", "rc1", "raise"} :
        /\ log' = log \o <<Event("run:" \o tool, out), Event("return", CreateResult(out))>>
        /\ result' = CreateResult(out)
    /\ pc' = "done"
    /\ UNCHANGED <<op, host, srcExists, efiExists, args, tool, idx, sniffState,
                   mountState, writers>>

\* lines 115 and 119-121
WhichXorriso ==
    /\ pc = "c_xorriso"
    /\ log' = Append(log, Event("which:xorriso", YesNo("xorriso" \in PATH)))
    /\ IF "xorriso" \in PATH
       THEN /\ tool' = "xorriso"
            /\ pc' = "c_run_xorriso"
            /\ result' = result
       ELSE /\ tool' = tool
            /\ pc' = "done"
            /\ result' = "False"
    /\ UNCHANGED <<op, host, srcExists, efiExists, args, idx, cmd, sniffState,
                   mountState, writers>>

\* lines 116 and 162-199
RunXorriso ==
    /\ pc = "c_run_xorriso"
    /\ cmd' = _create_iso_xorriso_cmd(args.source_dir, args.output_iso,
                                      args.volume_label, efiExists)
    /\ \E out \in {"rc0", "rc1", "raise"} :
        /\ log' = log \o <<Event("run:xorriso", out), Event("return", CreateResult(out))>>
        /\ result' = CreateResult(out)
    /\ pc' = "done"
    /\ UNCHANGED <<op, host, srcExists, efiExists, args, tool, idx, sniffState,
                   mountState, writers>>

----------------------------------------------------------------------------

Next ==
    \/ extract_iso
    \/ Which7z
    \/ Run7z
    \/ MountProbe
    \/ RunMount
    \/ CopyTree
    \/ Umount1
    \/ Rmdir1
    \/ Finally
    \/ Umount2
    \/ Rmdir2
    \/ Basic
    \/ create_iso
    \/ WhichNative
    \/ RunNative
    \/ WhichXorriso
    \/ RunXorriso

Spec == Init /\ [][Next]_vars

----------------------------------------------------------------------------
(* Properties                                                              *)

Has(e) == \E i \in DOMAIN log : log[i].ev = e

HasOut(e, outs) == \E i \in DOMAIN log : log[i].ev = e /\ log[i].out \in outs

Before(i) == 1..(i - 1)

StrategyEvents == {"run:7z", "mkdtemp", "run:mount", "copytree", "sniff"}

SevenZipFailedBefore(i) ==
    \/ "7z" \notin PATH
    \/ \E j \in Before(i) : log[j].ev = "run:7z" /\ log[j].out \in {"rc1", "raise"}

ReturnedTrueBefore(i) == \E j \in Before(i) : log[j] = Event("return", "True")

\* C1: extract_iso tries 7z, then the loop mount, then the basic sniff, in
\* that order: mount is issued only after 7z was absent, exited non-zero or
\* raised; the sniff runs only if in addition /bin/mount was absent or the
\* mount strategy did not return True; nothing is attempted after a strategy
\* returned True.
C1_StrategyOrder ==
    op = "extract" =>
        \A i \in DOMAIN log :
            /\ log[i].ev = "run:mount" =>
                   /\ SevenZipFailedBefore(i)
                   /\ \A j \in Before(i) : log[j].ev # "sniff"
            /\ log[i].ev = "sniff" =>
                   /\ SevenZipFailedBefore(i)
                   /\ ~binMount \/ ~ReturnedTrueBefore(i)
            /\ log[i].ev = "run:7z" =>
                   \A j \in Before(i) : log[j].ev \notin {"mkdtemp", "run:mount", "sniff"}
            /\ log[i] = Event("return", "True") =>
                   \A j \in DOMAIN log : j > i => log[j].ev \notin StrategyEvents

C1_Witness ==
    /\ pc = "done"
    /\ HasOut("run:7z", {"rc1"})
    /\ HasOut("run:mount", {"rc1"})
    /\ Has("sniff")

FirstAvailable ==
    IF "genisoimage" \in PATH THEN "genisoimage"
    ELSE IF "mkisofs" \in PATH THEN "mkisofs"
    ELSE IF "xorriso" \in PATH THEN "xorriso"
    ELSE "none"

Runs == {i \in DOMAIN log : \E t \in Programs \cup {"mount", "umount@60", "umount@70"} :
                                log[i].ev = "run:" \o t}

\* C2: create_iso on an existing source directory runs the first available
\* of genisoimage, mkisofs, xorriso exactly once and nothing else; it returns
\* True iff that run exited with 0; with none on PATH it runs nothing and
\* returns False.
C2_FirstToolOnce ==
    (op = "create" /\ srcExists) =>
        /\ \A i \in Runs : /\ FirstAvailable # "none"
                           /\ log[i].ev = "run:" \o FirstAvailable
                           /\ cmd[1] = FirstAvailable
        /\ Cardinality(Runs) <= 1
        /\ pc = "done" =>
              IF FirstAvailable = "none"
              THEN Runs = {} /\ result = "False"
              ELSE /\ Cardinality(Runs) = 1
                   /\ \A i \in Runs : (result = "True") <=> (log[i].out = "rc0")
                   /\ result \in {"True", "False"}

C2_Witness ==
    /\ op = "create"
    /\ pc = "done"
    /\ {"genisoimage", "mkisofs", "xorriso"} \subseteq PATH
    /\ HasOut("run:genisoimage", {"rc1"})
    /\ result = "False"

\* C3 as stated: whenever the basic sniff runs, 7z was not on PATH and
\* /bin/mount did not exist.
C3_SniffOnlyWithoutTools ==
    Has("sniff") => ("7z" \notin PATH /\ ~binMount)

\* C3: whenever the basic sniff runs, no external strategy
\* succeeded: 7z was not on PATH or its run exited non-zero or raised, and
\* /bin/mount did not exist or the mount strategy failed (mount exited
\* non-zero or raised, the copy raised, or umount or rmdir raised after it).
C3_SniffOnlyAfterFailures ==
    Has("sniff") =>
        /\ \/ "7z" \notin PATH
           \/ HasOut("run:7z", {"rc1", "raise"})
        /\ \/ ~binMount
           \/ HasOut("run:mount", {"rc1", "raise"})
           \/ HasOut("copytree", {"raise"})
           \/ HasOut("run:umount@60", {"raise"})
           \/ HasOut("rmdir@61", {"raise"})

C3_Witness ==
    /\ Has("sniff")
    /\ "7z" \in PATH
    /\ binMount

MagicAtSector16(img) ==
    /\ FileLen(img) >= 32774
    /\ \A k \in 0..5 : ByteAt(img, 32768 + k) = Magic[k + 1]

\* C4: for every image content that could be read, the sniff reports "not a
\* valid ISO9660 image" iff the 6 bytes at offset 32768 are not 0x01 'CD001'
\* (in particular when the file is shorter than 32774 bytes) and reports
\* "not fully implemented" iff they are.
C4_MagicCheck ==
    (sniffMsg # "none" /\ readOk) =>
        /\ (sniffMsg = "not_valid") <=> ~MagicAtSector16(image)
        /\ (sniffMsg = "not_implemented") <=> MagicAtSector16(image)

C4_Witness ==
    /\ readOk
    /\ sniffMsg = "not_valid"
    /\ FileLen(image) > 32768
    /\ FileLen(image) < 32774

\* C5: the basic sniff always returns False and never writes into the
\* extract directory, so extract_iso returns True only if 7z exited with 0,
\* or mount exited with 0 and the copy completed.
C5_BasicExtractsNothing ==
    /\ "basic" \notin writers
    /\ sniffMsg # "none" => (pc = "done" /\ result = "False")
    /\ (op = "extract" /\ result = "True") =>
           \/ HasOut("run:7z", {"rc0"})
           \/ HasOut("run:mount", {"rc0"}) /\ HasOut("copytree", {"ok"})

C5_Witness ==
    /\ sniffMsg = "not_implemented"
    /\ pc = "done"
    /\ result = "False"

\* C6: whenever 7z did not succeed, mount exited with 0 and the copy of the
\* mounted tree completed, extract_iso returns True, whatever umount and the
\* removal of the mount point do afterwards.
C6_MountSuccessReported ==
    ( /\ pc = "done"
      /\ op = "extract"
      /\ ~HasOut("run:7z", {"rc0"})
      /\ HasOut("run:mount", {"rc0"})
      /\ HasOut("copytree", {"ok"}) )
    => result = "True"

EfiPositions(c) == {i \in 1..(Len(c) - Len(EfiArgs) + 1) :
                        SubSeq(c, i, i + Len(EfiArgs) - 1) = EfiArgs}

\* c without its first run of the UEFI arguments
StripEfi(c) ==
    IF EfiPositions(c) = {} THEN c
    ELSE LET i == CHOOSE k \in EfiPositions(c) : \A m \in EfiPositions(c) : k <= m
         IN  SubSeq(c, 1, i - 1) \o SubSeq(c, i + Len(EfiArgs), Len(c))

CmdWithoutEfi ==
    IF tool = "xorriso"
    THEN _create_iso_xorriso_cmd(args.source_dir, args.output_iso, args.volume_label, FALSE)
    ELSE _create_iso_native_cmd(tool, args.source_dir, args.output_iso, args.volume_label, FALSE)

\* C7: the command built by either builder contains the UEFI El Torito
\* arguments exactly once iff efi.img exists, and without them it is the
\* command built for the same tool, source, output and label when efi.img
\* does not exist.
C7_EfiArgs ==
    cmd # <<>> =>
        /\ Cardinality(EfiPositions(cmd)) = (IF efiExists THEN 1 ELSE 0)
        /\ StripEfi(cmd) = CmdWithoutEfi
        /\ EfiPositions(CmdWithoutEfi) = {}

C7_Witness ==
    /\ cmd # <<>>
    /\ tool = "xorriso"
    /\ efiExists
    /\ args.source_dir = "-eltorito-alt-boot"

\* C8: when the source does not exist, the call returns False having probed
\* for and run no program, created no mount point, and neither read the
\* image nor written the destination.
C8_MissingSource ==
    (pc = "done" /\ ~srcExists) =>
        /\ result = "False"
        /\ log = <<Event("exists:source", "no")>>
        /\ ~mountPointExists
        /\ writers = {}
        /\ sniffMsg = "none"
        /\ cmd = <<>>

C8_Witness ==
    /\ pc = "done"
    /\ op = "extract"
    /\ ~srcExists
    /\ "7z" \in PATH
    /\ binMount

\* C9: whenever extract_iso created a mount point, when it finishes an
\* umount has been issued after every successful mount and the mount point
\* no longer exists.
C9_MountCleanup ==
    (pc = "done" /\ Has("mkdtemp")) =>
        /\ ~mountPointExists
        /\ \A i \in DOMAIN log :
               log[i] = Event("run:mount", "rc0") =>
                   \E j \in DOMAIN log :
                       j > i /\ log[j].ev \in {"run:umount@60", "run:umount@70"}

\* C10: extract_iso and create_iso always finish by returning True or False,
\* never by an exception, whatever the outcomes of the commands and
\* filesystem operations.
C10_NoException ==
    pc = "done" => result \in {"True", "False"}

====
